---- MODULE Spec2Model ----
(***************************************************************************)
(* A model of synapse/push/mailer.py: the notification digest built by     *)
(* Mailer.send_notification_mail, the per-room context merge of            *)
(* Mailer._get_room_vars and the summary headline selection.               *)
(***************************************************************************)
EXTENDS Integers, Sequences, FiniteSets, TLC

\* ------------------------------------------------------------------ bounds
\* Longest push-action batch handed to send_notification_mail.
MaxBatch == 4
\* Events in each room's timeline.
NEvents == 3
\* Longest list of push actions handed to _get_room_vars on its own.
MaxNotifs == 3

\* --------------------------------------------------------- program constants
CONTEXT_BEFORE == 1
\* The limit passed to concurrently_execute.
FetchLimitRaised == 3 + 1
FetchLimit == 3

\* ------------------------------------------------------------------ domain
\* Python's None, for the values modelled as tuples (names, member events).
None == <<>>
\* A received_ts of None.
NoTs == 0 - 1
user_id == "@me:hs"
Rooms == {"!r1", "!r2", "!r3", "!r4"}
Senders == {"@alice:hs", "@bob:hs", "@carol:hs"}
Message == "m.room.message"
Encrypted == "m.room.encrypted"
Member == "m.room.member"
INVITE == "invite"
JOIN == "join"

\* An event id is a room and a position in that room's timeline.
EventIds == Rooms \X (1..NEvents)

\* The event shapes the code tells apart: type, state_key and membership.
EventShapes ==
    { [type |-> Message, state_key |-> "", membership |-> ""],
      [type |-> Encrypted, state_key |-> "", membership |-> ""],
      [type |-> Member, state_key |-> user_id, membership |-> INVITE],
      [type |-> Member, state_key |-> user_id, membership |-> JOIN],
      [type |-> Member, state_key |-> "@other:hs", membership |-> INVITE] }

VARIABLES
    \* ---- the store, read-only during a call
    events,             \* event id -> [type, sender, state_key, membership]
    visible,            \* event ids filter_events_for_client lets through
    room_state_ids,     \* room -> users with an ("m.room.member", user) entry
    historical_member,  \* <<event id, user>>: the state as of the event holds the user's membership
    missing_events,     \* <<room, user>> member events get_event(allow_none) / get_events cannot find
    room_name_kind,     \* room -> "explicit" | "members" | "none"
    profile,            \* what get_profile_displayname gives: a name, "None", or StoreError
    \* ---- send_notification_mail
    pc,
    push_actions,
    reason,
    rooms_in_order,
    notifs_by_room,
    user_display_name,
    state_by_room,      \* the rooms whose current state has been stored
    it,                 \* how many rooms the fetch workers have taken from the iterator
    inflight,           \* rooms whose get_current_state_ids call is awaited
    workers,            \* fetch workers still running
    rooms,              \* the room digests built so far
    summary_text,
    email,              \* the template_vars handed to send_email, or None
    failure,            \* the fetch that failed, or None
    \* ---- _get_room_vars, one notification per step
    rv_pc,
    rv_room,
    rv_notifs_in,       \* the push actions of the room
    rv_i,               \* notifications processed so far
    rv_notifs,          \* room_vars["notifs"]
    rv_targets,         \* per entry of rv_notifs: target events of the notifications placed/merged into it
    rv_invite

store_vars == <<events, visible, room_state_ids, historical_member, missing_events, room_name_kind,
               profile>>
mail_vars == <<pc, push_actions, reason, rooms_in_order, notifs_by_room, user_display_name,
               state_by_room, it, inflight, workers, rooms, summary_text, email, failure>>
room_vars_vars == <<rv_pc, rv_room, rv_notifs_in, rv_i, rv_notifs, rv_targets, rv_invite>>
vars == <<store_vars, mail_vars, room_vars_vars>>

\* ----------------------------------------------------------------- helpers
Range(s) == { s[i] : i \in 1..Len(s) }
Last(s) == s[Len(s)]
SeqsUpTo(S, n) == UNION { [1..k -> S] : k \in 0..n }
MinOf(S) == CHOOSE x \in S : \A y \in S : x <= y
MaxOf(S) == CHOOSE x \in S : \A y \in S : x >= y

RECURSIVE SeqMap(_, _)
SeqMap(Op(_), s) == IF s = <<>> THEN <<>> ELSE <<Op(Head(s))>> \o SeqMap(Op, Tail(s))

\* A push action row: received_ts is the time its event was received.
PushAction(e) == [room_id |-> e[1], event_id |-> e, received_ts |-> e[2]]
PushActions == { PushAction(e) : e \in EventIds }

\* ------------------------------------------------- deduped_ordered_list
RECURSIVE dedup_loop(_, _, _)
dedup_loop(items, seen, ret) ==
    IF items = <<>> THEN ret
    ELSE LET item == Head(items) IN
         IF item \notin seen
         THEN dedup_loop(Tail(items), seen \cup {item}, Append(ret, item))
         ELSE dedup_loop(Tail(items), seen, ret)

no_dedup(items) == items
deduped_ordered_list(items) == dedup_loop(items, {}, <<>>)

\* notifs_by_room.setdefault(pa["room_id"], []).append(pa), for every pa
group_by_room(pas) ==
    [r \in { pas[i].room_id : i \in 1..Len(pas) } |->
        SelectSeq(pas, LAMBDA pa : pa.room_id = r)]

\* ------------------------------------------------- rooms_in_order.sort
\* received_ts or 0
ts_or_0(ts) == IF ts = NoTs THEN 0 ELSE ts
\* key=lambda r: -(notifs_by_room[r][-1]["received_ts"] or 0)
sort_key(nbr, r) == 0 - ts_or_0(Last(nbr[r]).received_ts)

\* list.sort is stable: an element goes after every element whose key is <= its own.
RECURSIVE insert_stable(_, _, _)
insert_stable(sorted, x, nbr) ==
    IF sorted = <<>> THEN <<x>>
    ELSE IF sort_key(nbr, Head(sorted)) <= sort_key(nbr, x)
         THEN <<Head(sorted)>> \o insert_stable(Tail(sorted), x, nbr)
         ELSE <<x>> \o sorted

RECURSIVE sort_rooms(_, _)
sort_rooms(rs, nbr) ==
    IF rs = <<>> THEN <<>>
    ELSE insert_stable(sort_rooms(SubSeq(rs, 1, Len(rs) - 1), nbr), Last(rs), nbr)

\* ------------------------------------------------- presentable names
\* name_from_member_event / descriptor_from_member_events of one event: the
\* name carried by that member event.  A member event is <<user, where it
\* was found>>.
name_from_member_event(member_event) == <<"name", member_event[1], member_event[2]>>
descriptor_from_member_events(member_events) == name_from_member_event(Head(member_events))

\* calculate_room_name(store, room_state_ids, user_id, fallback_to_members)
calculate_room_name(room_id, fallback_to_members) ==
    CASE room_name_kind[room_id] = "explicit" -> <<"room_name", room_id>>
      [] room_name_kind[room_id] = "members" /\ fallback_to_members -> <<"members_of", room_id>>
      [] OTHER -> None

\* ------------------------------------------------- store reads
\* get_events_around(room_id, event_id, before_limit=CONTEXT_BEFORE)["events_before"]
events_before(event_id) ==
    LET first == IF event_id[2] > CONTEXT_BEFORE THEN event_id[2] - CONTEXT_BEFORE ELSE 1
    IN [i \in 1..(event_id[2] - first) |-> <<event_id[1], first + i - 1>>]

filter_events_for_client(evs) == SelectSeq(evs, LAMBDA e : e \in visible)

\* self.store.get_event(id, allow_none=True) of a member event
get_member_event(room_id, user) ==
    IF <<room_id, user>> \in missing_events THEN None ELSE <<user, "current">>

\* get_state_for_event(event_id, filter).get(("m.room.member", sender))
historical_state_member(event_id) ==
    IF <<event_id, events[event_id].sender>> \in historical_member
    THEN <<events[event_id].sender, "historical">> ELSE None

is_invite_for_user(event_id) ==
    /\ events[event_id].type = Member
    /\ events[event_id].state_key = user_id
    /\ events[event_id].membership = INVITE

\* ------------------------------------------------- _get_message_vars
\* The lookup without the historical state.
sender_state_event_current_only(event_id) ==
    IF events[event_id].sender \in room_state_ids[event_id[1]]
    THEN <<events[event_id].sender, "current">>
    ELSE None

sender_state_event(event_id) ==
    IF events[event_id].sender \in room_state_ids[event_id[1]]
    THEN <<events[event_id].sender, "current">>
    ELSE historical_state_member(event_id)

\* sender_state_event.content.get("avatar_url") of a member event
avatar_url_of(member_event) == <<"avatar_url", member_event[1], member_event[2]>>

NoMessageVars == [event_type |-> "None"]
_get_message_vars(notif, event_id) ==
    IF events[event_id].type # Message /\ events[event_id].type # Encrypted
    THEN NoMessageVars
    ELSE [ event_type |-> events[event_id].type,
           is_historical |-> event_id # notif.event_id,
           id |-> event_id,
           sender_name |-> IF sender_state_event(event_id) # None
                           THEN name_from_member_event(sender_state_event(event_id))
                           ELSE <<"mxid", events[event_id].sender>>,
           sender_avatar_url |-> IF sender_state_event(event_id) # None
                                 THEN avatar_url_of(sender_state_event(event_id))
                                 ELSE None ]

\* ------------------------------------------------- _get_notif_vars
RECURSIVE message_vars_of(_, _)
message_vars_of(notif, the_events) ==
    IF the_events = <<>> THEN <<>>
    ELSE LET messagevars == _get_message_vars(notif, Head(the_events)) IN
         (IF messagevars # NoMessageVars THEN <<messagevars>> ELSE <<>>)
            \o message_vars_of(notif, Tail(the_events))

_get_notif_vars(notif) ==
    LET the_events == Append(filter_events_for_client(events_before(notif.event_id)),
                             notif.event_id)
    IN [ link |-> <<"notif_link", notif.room_id, notif.event_id>>,
         ts |-> notif.received_ts,
         messages |-> message_vars_of(notif, the_events) ]

\* ------------------------------------------------- _get_room_vars: the merge
\* The loop over notifvars["messages"]: prev_messages is mutated in place.
\* The loop with "elif merge" written as "if merge": a matched message is
\* appended again.
RECURSIVE merge_loop_appends_matched(_, _, _)
merge_loop_appends_matched(prev_messages, messages, merge) ==
    IF messages = <<>> THEN [prev_messages |-> prev_messages, merge |-> merge]
    ELSE LET message == Head(messages)
             pm == { i \in 1..Len(prev_messages) : prev_messages[i].id = message.id }
         IN IF pm # {}
            THEN merge_loop_appends_matched(
                    Append(IF ~message.is_historical
                           THEN [prev_messages EXCEPT ![MinOf(pm)].is_historical = FALSE]
                           ELSE prev_messages, message),
                    Tail(messages), TRUE)
            ELSE IF merge
                 THEN merge_loop_appends_matched(Append(prev_messages, message),
                                                 Tail(messages), merge)
                 ELSE merge_loop_appends_matched(prev_messages, Tail(messages), merge)

\* The loop without pm[0]["is_historical"] = False.
RECURSIVE merge_loop_keeps_historical(_, _, _)
merge_loop_keeps_historical(prev_messages, messages, merge) ==
    IF messages = <<>> THEN [prev_messages |-> prev_messages, merge |-> merge]
    ELSE LET message == Head(messages)
             pm == { i \in 1..Len(prev_messages) : prev_messages[i].id = message.id }
         IN IF pm # {}
            THEN merge_loop_keeps_historical(prev_messages, Tail(messages), TRUE)
            ELSE IF merge
                 THEN merge_loop_keeps_historical(Append(prev_messages, message),
                                                  Tail(messages), merge)
                 ELSE merge_loop_keeps_historical(prev_messages, Tail(messages), merge)

\* The loop without the "elif merge" branch: nothing is appended.
RECURSIVE merge_loop_never_appends(_, _, _)
merge_loop_never_appends(prev_messages, messages, merge) ==
    IF messages = <<>> THEN [prev_messages |-> prev_messages, merge |-> merge]
    ELSE LET message == Head(messages)
             pm == { i \in 1..Len(prev_messages) : prev_messages[i].id = message.id }
         IN IF pm # {}
            THEN merge_loop_never_appends(
                    IF ~message.is_historical
                    THEN [prev_messages EXCEPT ![MinOf(pm)].is_historical = FALSE]
                    ELSE prev_messages,
                    Tail(messages), TRUE)
            ELSE merge_loop_never_appends(prev_messages, Tail(messages), merge)

RECURSIVE merge_loop(_, _, _)
merge_loop(prev_messages, messages, merge) ==
    IF messages = <<>> THEN [prev_messages |-> prev_messages, merge |-> merge]
    ELSE LET message == Head(messages)
             pm == { i \in 1..Len(prev_messages) : prev_messages[i].id = message.id }
         IN IF pm # {}
            THEN merge_loop(IF ~message.is_historical
                            THEN [prev_messages EXCEPT ![MinOf(pm)].is_historical = FALSE]
                            ELSE prev_messages,
                            Tail(messages), TRUE)
            ELSE IF merge
                 THEN merge_loop(Append(prev_messages, message), Tail(messages), merge)
                 ELSE merge_loop(prev_messages, Tail(messages), merge)

\* The iteration without "if not merge": notifvars is appended also after a merge.
merge_notif_always_appends(notifs, notifvars) ==
    IF notifs # <<>>
    THEN LET res == merge_loop(Last(notifs).messages, notifvars.messages, FALSE) IN
         Append([notifs EXCEPT ![Len(notifs)].messages = res.prev_messages], notifvars)
    ELSE Append(notifs, notifvars)

\* One iteration of "for n in notifs": room_vars["notifs"] afterwards.
merge_notif(notifs, notifvars) ==
    IF notifs # <<>>
    THEN LET res == merge_loop(Last(notifs).messages, notifvars.messages, FALSE) IN
         IF res.merge
         THEN [notifs EXCEPT ![Len(notifs)].messages = res.prev_messages]
         ELSE Append(notifs, notifvars)
    ELSE Append(notifs, notifvars)

RECURSIVE merge_all(_, _)
merge_all(notifs, pas) ==
    IF pas = <<>> THEN notifs
    ELSE merge_all(merge_notif(notifs, _get_notif_vars(Head(pas))), Tail(pas))

\* The check with the flag assigned on every iteration: the last notification decides.
is_invite_of_last(pas) == pas # <<>> /\ is_invite_for_user(Last(pas).event_id)

\* "Check if one of the notifs is an invite event for the user."
is_invite(pas) == \E i \in 1..Len(pas) : is_invite_for_user(pas[i].event_id)

_get_room_vars(room_id, pas) ==
    [ title |-> calculate_room_name(room_id, TRUE),
      notifs |-> IF is_invite(pas) THEN <<>> ELSE merge_all(<<>>, pas),
      invite |-> is_invite(pas),
      link |-> <<"room_link", room_id>> ]

\* _get_message_vars calls get_event without allow_none: a current-state member
\* event the store cannot find raises out of _get_room_vars.
room_vars_raises(room_id, pas) ==
    /\ ~is_invite(pas)
    /\ \E i \in 1..Len(pas) :
         \E m \in Range(_get_notif_vars(pas[i]).messages) :
            /\ events[m.id].sender \in room_state_ids[room_id]
            /\ <<room_id, events[m.id].sender>> \in missing_events

\* ------------------------------------------------- summary headline
Raise == [template |-> "raise"]
NoSummary == [template |-> "None"]
NoEmail == [sent |-> FALSE]
Headline(template, person, room) == [template |-> template, person |-> person, room |-> room]

\* sender_ids: each sender with the event id of their first notification, in
\* order of first appearance (a dict keeps insertion order).
RECURSIVE sender_ids_loop(_, _)
sender_ids_loop(pas, acc) ==
    IF pas = <<>> THEN acc
    ELSE LET sender == events[Head(pas).event_id].sender IN
         IF sender \notin { acc[i][1] : i \in 1..Len(acc) }
         THEN sender_ids_loop(Tail(pas), Append(acc, <<sender, Head(pas).event_id>>))
         ELSE sender_ids_loop(Tail(pas), acc)

\* member_events as the loop over sender_ids leaves it: the senders found in
\* the historical state only, keyed by their notification event.
historical_member_events(room_id, sender_ids) ==
    SeqMap(LAMBDA se : historical_state_member(se[2]),
           SelectSeq(sender_ids, LAMBDA se : /\ se[1] \notin room_state_ids[room_id]
                                             /\ historical_state_member(se[2]) # None))

\* get_events(member_event_ids): the current-state member events the store
\* finds, in the order they were asked for.
current_member_events(room_id, sender_ids) ==
    SeqMap(LAMBDA se : get_member_event(room_id, se[1]),
           SelectSeq(sender_ids, LAMBDA se : /\ se[1] \in room_state_ids[room_id]
                                             /\ get_member_event(room_id, se[1]) # None))

\* member_events.update(...): the current-state events come after the
\* historical ones already in the dict.
member_events_in_order(room_id, pas) ==
    LET sender_ids == sender_ids_loop(pas, <<>>) IN
    historical_member_events(room_id, sender_ids) \o current_member_events(room_id, sender_ids)

_make_summary_text_from_member_events(room_id, pas) ==
    LET member_events == member_events_in_order(room_id, pas) IN
    IF member_events = <<>>
    THEN Headline("messages_in_room", None, <<"room_id", room_id>>)
    ELSE IF Len(member_events) = 1
         THEN Headline("messages_from_person", descriptor_from_member_events(member_events), None)
         ELSE Headline("messages_from_person_and_others",
                       descriptor_from_member_events(SubSeq(member_events, 1, 1)), None)

\* "See if one of the notifs is an invite event for the user", looking at the
\* first notification only.
invite_event_if_first(pas) ==
    IF is_invite_for_user(pas[1].event_id) THEN pas[1].event_id ELSE None

\* "See if one of the notifs is an invite event for the user": the first one.
find_invite_event(pas) ==
    LET invites == { i \in 1..Len(pas) : is_invite_for_user(pas[i].event_id) } IN
    IF invites # {} THEN pas[MinOf(invites)].event_id ELSE None

\* The name of the one notification's sender, with the historical state of
\* the event tried when the sender is not in the current state.
sender_name_or_historical(room_id, event_id) ==
    IF sender_state_event(event_id) # None
    THEN name_from_member_event(sender_state_event(event_id))
    ELSE None

\* "There is just the one notification, so give some detail": sender_name.
\* get_event is called without allow_none and raises when the event is missing.
RaisedName == <<"raise">>
single_notif_sender_name(room_id, event_id) ==
    LET sender == events[event_id].sender IN
    IF sender \in room_state_ids[room_id]
    THEN IF get_member_event(room_id, sender) = None
         THEN RaisedName
         ELSE name_from_member_event(get_member_event(room_id, sender))
    ELSE None

_make_summary_text_single_room(room_id, pas) ==
    LET room_name == calculate_room_name(room_id, FALSE)
        invite_event == find_invite_event(pas)
    IN
    IF invite_event # None
    THEN LET inviter == events[invite_event].sender
             inviter_member_event ==
                 IF inviter \in room_state_ids[room_id]
                 THEN get_member_event(room_id, inviter) ELSE None
             inviter_name == IF inviter_member_event # None
                             THEN name_from_member_event(inviter_member_event)
                             ELSE <<"mxid", inviter>>
         IN IF room_name = None
            THEN Headline("invite_from_person", inviter_name, None)
            ELSE Headline("invite_from_person_to_room", inviter_name, room_name)
    ELSE IF Len(pas) = 1
    THEN LET sender_name == single_notif_sender_name(room_id, pas[1].event_id) IN
         IF sender_name = RaisedName
         THEN Raise
         ELSE IF sender_name # None /\ room_name # None
         THEN Headline("message_from_person_in_room", sender_name, room_name)
         ELSE IF sender_name # None
         THEN Headline("message_from_person", sender_name, None)
         ELSE Headline("messages_in_room", None,
                       IF room_name # None THEN room_name ELSE <<"room_id", room_id>>)
    ELSE IF room_name # None
    THEN Headline("messages_in_room", None, room_name)
    ELSE _make_summary_text_from_member_events(room_id, pas)

\* The headline of several rooms taken from a room other than the reason's.
summary_text_of_another_room(nbr, rsn) ==
    IF rsn.room_name # None
    THEN Headline("messages_in_room_and_others", None, rsn.room_name)
    ELSE LET room_id == CHOOSE r \in DOMAIN nbr : r # rsn.room_id IN
         _make_summary_text_from_member_events(room_id, nbr[room_id])

_make_summary_text(nbr, rsn) ==
    IF rsn.room_name # None
    THEN Headline("messages_in_room_and_others", None, rsn.room_name)
    ELSE _make_summary_text_from_member_events(rsn.room_id, nbr[rsn.room_id])

\* Lines 276-290 of send_notification_mail.
select_summary_text(nbr, rsn) ==
    IF Cardinality(DOMAIN nbr) = 1
    THEN LET room_id == CHOOSE r \in DOMAIN nbr : TRUE IN
         _make_summary_text_single_room(room_id, nbr[room_id])
    ELSE _make_summary_text(nbr, rsn)

\* ================================================= send_notification_mail
StoreError == "StoreError"
ProfileResults == { "Me", "", "None", StoreError }

\* The store of the digest runs: every event a message or an encrypted
\* message, senders alternating along each timeline.
MailStoreInit ==
    /\ events = [e \in EventIds |->
                    [type |-> IF e[1] = "!r2" /\ e[2] = 2 THEN Encrypted ELSE Message,
                     state_key |-> "", membership |-> "",
                     sender |-> IF e[2] % 2 = 1 THEN "@alice:hs" ELSE "@bob:hs"]]
    /\ visible = EventIds
    /\ room_state_ids = [r \in Rooms |-> IF r = "!r1" THEN {} ELSE {"@alice:hs"}]
    /\ historical_member = { <<e, "@alice:hs">> : e \in { x \in EventIds : x[2] = 1 } }
    /\ missing_events = {}
    /\ room_name_kind = [r \in Rooms |-> CASE r = "!r1" -> "none"
                                           [] r = "!r2" -> "members"
                                           [] OTHER -> "explicit"]
    /\ profile \in ProfileResults

\* The push actions of the digest runs: the first two events of each timeline.
MailPushActions == { PushAction(e) : e \in { x \in EventIds : x[2] <= 2 } }

\* Room ids are opaque to the code: a batch names its rooms in the order in
\* which they first appear.
RoomOrder == <<"!r1", "!r2", "!r3", "!r4">>
FirstSeenOrdered(b) ==
    \A i \in 1..Len(b) :
        \E k \in 1..(Cardinality({ b[j].room_id : j \in 1..(i - 1) }) + 1) :
            k <= Len(RoomOrder) /\ b[i].room_id = RoomOrder[k]

RoomVarsIdle ==
    /\ rv_pc = "idle"
    /\ rv_room = ""
    /\ rv_notifs_in = <<>>
    /\ rv_i = 0
    /\ rv_notifs = <<>>
    /\ rv_targets = <<>>
    /\ rv_invite = FALSE

Init ==
    /\ MailStoreInit
    /\ RoomVarsIdle
    /\ push_actions \in { b \in SeqsUpTo(MailPushActions, MaxBatch) \ {<<>>} :
                                FirstSeenOrdered(b) }
    /\ \E i \in 1..Len(push_actions) :
         reason = [room_id |-> push_actions[i].room_id,
                   event_id |-> push_actions[i].event_id, room_name |-> None]
    /\ pc = "start"
    /\ rooms_in_order = <<>>
    /\ notifs_by_room = <<>>
    /\ user_display_name = ""
    /\ state_by_room = {}
    /\ it = 0
    /\ inflight = {}
    /\ workers = 0
    /\ rooms = <<>>
    /\ summary_text = NoSummary
    /\ email = NoEmail
    /\ failure = None

\* Lines 227-235: the room list, the notification events, the grouping.
GetEvents ==
    /\ pc = "start"
    /\ rooms_in_order' = deduped_ordered_list(SeqMap(LAMBDA pa : pa.room_id, push_actions))
    /\ notifs_by_room' = group_by_room(push_actions)
    /\ pc' = "profile"
    /\ UNCHANGED <<store_vars, room_vars_vars, push_actions, reason, user_display_name,
                   state_by_room, it, inflight, workers, rooms, summary_text, email, failure>>

\* store.get_events raises: nothing is caught.
GetEventsFail ==
    /\ pc = "start"
    /\ rooms_in_order' = deduped_ordered_list(SeqMap(LAMBDA pa : pa.room_id, push_actions))
    /\ failure' = <<"get_events">>
    /\ pc' = "failed"
    /\ UNCHANGED <<store_vars, room_vars_vars, push_actions, reason, notifs_by_room,
                   user_display_name, state_by_room, it, inflight, workers, rooms,
                   summary_text, email>>

\* The profile lookup with a StoreError left uncaught.
GetProfileUncaught ==
    /\ pc = "profile"
    /\ IF profile = StoreError
       THEN /\ failure' = <<"profile">>
            /\ pc' = "failed"
            /\ UNCHANGED <<user_display_name, workers>>
       ELSE /\ user_display_name' = IF profile = "None" THEN user_id ELSE profile
            /\ workers' = FetchLimit
            /\ pc' = "fetch"
            /\ UNCHANGED failure
    /\ UNCHANGED <<store_vars, room_vars_vars, push_actions, reason, rooms_in_order,
                   notifs_by_room, state_by_room, it, inflight, rooms, summary_text, email>>

\* Lines 241-256: the profile lookup, then concurrently_execute starts its workers.
GetProfile ==
    /\ pc = "profile"
    /\ user_display_name' = IF profile = StoreError \/ profile = "None" THEN user_id ELSE profile
    /\ workers' = FetchLimit
    /\ pc' = "fetch"
    /\ UNCHANGED <<store_vars, room_vars_vars, push_actions, reason, rooms_in_order,
                   notifs_by_room, state_by_room, it, inflight, rooms, summary_text,
                   email, failure>>

\* A worker takes the next room from the shared iterator and awaits its state.
FetchStart ==
    /\ it < Len(rooms_in_order)
    /\ Cardinality(inflight) < workers
    /\ it' = it + 1
    /\ inflight' = inflight \cup {rooms_in_order[it + 1]}
    /\ UNCHANGED <<store_vars, room_vars_vars, pc, push_actions, reason, rooms_in_order,
                   notifs_by_room, user_display_name, state_by_room, workers, rooms,
                   summary_text, email, failure>>

\* The fetch that also moves its room to the end of the list: the list ends
\* up in completion order.
FetchCompleteReorders(r) ==
    /\ r \in inflight
    /\ inflight' = inflight \ {r}
    /\ state_by_room' = state_by_room \cup {r}
    /\ rooms_in_order' = SelectSeq(rooms_in_order, LAMBDA x : x # r) \o <<r>>
    /\ UNCHANGED <<store_vars, room_vars_vars, pc, push_actions, reason, notifs_by_room,
                   user_display_name, it, workers, rooms, summary_text, email, failure>>

\* _fetch_room_state: state_by_room[room_id] = room_state
FetchComplete(r) ==
    /\ r \in inflight
    /\ inflight' = inflight \ {r}
    /\ state_by_room' = state_by_room \cup {r}
    /\ UNCHANGED <<store_vars, room_vars_vars, pc, push_actions, reason, rooms_in_order,
                   notifs_by_room, user_display_name, it, workers, rooms, summary_text,
                   email, failure>>

\* get_current_state_ids raises: that worker ends, the first failure is raised
\* out of concurrently_execute, the other workers run on.
FetchFail(r) ==
    /\ r \in inflight
    /\ inflight' = inflight \ {r}
    /\ workers' = workers - 1
    /\ failure' = IF failure = None THEN <<"state">> ELSE failure
    /\ pc' = IF pc = "fetch" THEN "failed" ELSE pc
    /\ UNCHANGED <<store_vars, room_vars_vars, push_actions, reason, rooms_in_order,
                   notifs_by_room, user_display_name, state_by_room, it, rooms,
                   summary_text, email>>

\* Line 259, once concurrently_execute has returned.
SortRooms ==
    /\ pc = "fetch"
    /\ it = Len(rooms_in_order)
    /\ inflight = {}
    /\ rooms_in_order' = sort_rooms(rooms_in_order, notifs_by_room)
    /\ pc' = "rooms"
    /\ UNCHANGED <<store_vars, room_vars_vars, push_actions, reason, notifs_by_room,
                   user_display_name, state_by_room, it, inflight, workers, rooms,
                   summary_text, email, failure>>

\* Lines 263-267: one room digest.
GetRoomVars ==
    /\ pc = "rooms"
    /\ Len(rooms) < Len(rooms_in_order)
    /\ LET r == rooms_in_order[Len(rooms) + 1] IN
         /\ r \in state_by_room
         /\ ~room_vars_raises(r, notifs_by_room[r])
         /\ rooms' = Append(rooms, _get_room_vars(r, notifs_by_room[r]))
    /\ UNCHANGED <<store_vars, room_vars_vars, pc, push_actions, reason, rooms_in_order,
                   notifs_by_room, user_display_name, state_by_room, it, inflight,
                   workers, summary_text, email, failure>>

\* The failure caught and the room left out of the digest.
RoomFailureSwallowed ==
    /\ pc = "rooms"
    /\ Len(rooms) < Len(rooms_in_order)
    /\ failure' = <<"event">>
    /\ rooms_in_order' = SelectSeq(rooms_in_order,
                                   LAMBDA r : r # rooms_in_order[Len(rooms) + 1])
    /\ UNCHANGED <<store_vars, room_vars_vars, pc, push_actions, reason, notifs_by_room,
                   user_display_name, state_by_room, it, inflight, workers, rooms,
                   summary_text, email>>

\* An event fetch of _get_room_vars raises: nothing is caught.
GetRoomVarsFail ==
    /\ pc = "rooms"
    /\ Len(rooms) < Len(rooms_in_order)
    /\ failure' = <<"event">>
    /\ pc' = "failed"
    /\ UNCHANGED <<store_vars, room_vars_vars, push_actions, reason, rooms_in_order,
                   notifs_by_room, user_display_name, state_by_room, it, inflight,
                   workers, rooms, summary_text, email>>

\* Lines 269-274.
ReasonRoomName ==
    /\ pc = "rooms"
    /\ Len(rooms) = Len(rooms_in_order)
    /\ reason' = [reason EXCEPT !.room_name = calculate_room_name(reason.room_id, TRUE)]
    /\ pc' = "summary"
    /\ UNCHANGED <<store_vars, room_vars_vars, push_actions, rooms_in_order,
                   notifs_by_room, user_display_name, state_by_room, it, inflight,
                   workers, rooms, summary_text, email, failure>>

\* Lines 276-302: the headline, then send_email.
SendEmail ==
    /\ pc = "summary"
    /\ select_summary_text(notifs_by_room, reason) # Raise
    /\ summary_text' = select_summary_text(notifs_by_room, reason)
    /\ email' = [ sent |-> TRUE,
                  user_display_name |-> user_display_name,
                  summary_text |-> summary_text',
                  rooms |-> rooms,
                  reason |-> reason ]
    /\ pc' = "done"
    /\ UNCHANGED <<store_vars, room_vars_vars, push_actions, reason, rooms_in_order,
                   notifs_by_room, user_display_name, state_by_room, it, inflight,
                   workers, rooms, failure>>

\* An event fetch of the headline selection raises.
SummaryFail ==
    /\ pc = "summary"
    /\ failure' = <<"event">>
    /\ pc' = "failed"
    /\ UNCHANGED <<store_vars, room_vars_vars, push_actions, reason, rooms_in_order,
                   notifs_by_room, user_display_name, state_by_room, it, inflight,
                   workers, rooms, summary_text, email>>

Next ==
    \/ GetEvents
    \/ GetEventsFail
    \/ GetProfile
    \/ FetchStart
    \/ \E r \in Rooms : FetchComplete(r)
    \/ \E r \in Rooms : FetchFail(r)
    \/ SortRooms
    \/ GetRoomVars
    \/ GetRoomVarsFail
    \/ ReasonRoomName
    \/ SendEmail
    \/ SummaryFail

Spec == Init /\ [][Next]_vars

\* ================================================= properties of the digest
BatchRooms == { push_actions[i].room_id : i \in 1..Len(push_actions) }
RoomOf(roomvars) == roomvars.link[2]
MaxReceivedTs(r) ==
    MaxOf({ ts_or_0(push_actions[i].received_ts) :
              i \in { k \in 1..Len(push_actions) : push_actions[k].room_id = r } })
FirstSeen(r) == MinOf({ i \in 1..Len(push_actions) : push_actions[i].room_id = r })

\* C1: in the digest handed to send_email the room sections are in descending
\* order of the maximum received_ts of each room's push actions, and rooms
\* with equal maxima keep their first-seen input order.
C1_RoomsByMaxReceivedTs ==
    email.sent =>
        \A i, j \in 1..Len(email.rooms) :
            i < j =>
                LET a == RoomOf(email.rooms[i])
                    b == RoomOf(email.rooms[j])
                IN \/ MaxReceivedTs(a) > MaxReceivedTs(b)
                   \/ MaxReceivedTs(a) = MaxReceivedTs(b) /\ FirstSeen(a) < FirstSeen(b)

\* C2: the digest handed to send_email has exactly one room section per
\* distinct room id of the push actions: none missing, none repeated.
C2_OneDigestPerRoom ==
    email.sent =>
        /\ { RoomOf(email.rooms[i]) : i \in 1..Len(email.rooms) } = BatchRooms
        /\ Len(email.rooms) = Cardinality(BatchRooms)

C2_Witness ==
    /\ email.sent
    /\ Cardinality(BatchRooms) >= 2
    /\ Len(push_actions) > Cardinality(BatchRooms)

\* C5: with more than 3 distinct rooms, at most 3 current-state fetches are
\* in flight at any instant, and once the first room digest is being
\* assembled every room's fetch has completed.
C5_BoundedFetches ==
    Cardinality(BatchRooms) > 3 =>
        /\ Cardinality(inflight) <= 3
        /\ (pc = "rooms" \/ rooms # <<>>) => (inflight = {} /\ state_by_room = BatchRooms)

C5_Witness ==
    /\ Cardinality(BatchRooms) > 3
    /\ Cardinality(inflight) = 3
    /\ it < Len(rooms_in_order)

\* C6: once a current-state fetch or an event fetch has failed, send_email is
\* never called; an email that is sent holds every room of the batch.
C6_NoEmailAfterFailedFetch ==
    /\ failure # None => ~email.sent
    /\ email.sent => { RoomOf(email.rooms[i]) : i \in 1..Len(email.rooms) } = BatchRooms

C6_Witness ==
    /\ failure # None
    /\ Cardinality(BatchRooms) >= 2
    /\ rooms # <<>>
    /\ Len(rooms) < Cardinality(BatchRooms)

\* ================================================= _get_room_vars, step by step
RoomUnderTest == "!r1"
SenderAt(k) == IF k % 2 = 1 THEN "@alice:hs" ELSE "@bob:hs"
Renderable(shape) == shape.type = Message \/ shape.type = Encrypted

MailIdle ==
    /\ pc = "idle"
    /\ push_actions = <<>>
    /\ reason = [room_id |-> "", event_id |-> <<>>, room_name |-> None]
    /\ rooms_in_order = <<>>
    /\ notifs_by_room = <<>>
    /\ user_display_name = ""
    /\ state_by_room = {}
    /\ it = 0
    /\ inflight = {}
    /\ workers = 0
    /\ rooms = <<>>
    /\ summary_text = NoSummary
    /\ email = NoEmail
    /\ failure = None

\* The shapes of the timeline under test: a message, or one of the member
\* events the invite check tells apart.
RoomShapes == { sh \in EventShapes : sh.type # Encrypted }

\* One room whose timeline holds any of these shapes.  filter_events_for_client
\* is only ever applied to an event that precedes another one, and dropping an
\* event that is not rendered anyway changes nothing: visible varies over the
\* rendered events that have a successor.
InitRoom ==
    /\ MailIdle
    /\ \E shapes \in [1..NEvents -> RoomShapes] :
         /\ events = [e \in EventIds |->
                        IF e[1] = RoomUnderTest
                        THEN [type |-> shapes[e[2]].type, state_key |-> shapes[e[2]].state_key,
                              membership |-> shapes[e[2]].membership, sender |-> SenderAt(e[2])]
                        ELSE [type |-> Message, state_key |-> "", membership |-> "",
                              sender |-> SenderAt(e[2])]]
         /\ \E hidden \in SUBSET { k \in 1..(NEvents - 1) : Renderable(shapes[k]) } :
              visible = { e \in EventIds : ~(e[1] = RoomUnderTest /\ e[2] \in hidden) }
    /\ room_state_ids = [r \in Rooms |-> {"@alice:hs"}]
    /\ historical_member = {}
    /\ missing_events = {}
    /\ room_name_kind = [r \in Rooms |-> "none"]
    /\ profile = "None"
    /\ rv_pc = "check"
    /\ rv_room = RoomUnderTest
    /\ rv_notifs_in \in SeqsUpTo({ PushAction(<<RoomUnderTest, k>>) : k \in 1..NEvents },
                                 MaxNotifs)
    /\ rv_i = 0
    /\ rv_notifs = <<>>
    /\ rv_targets = <<>>
    /\ rv_invite = FALSE

\* Lines 348-365: the invite check and the empty room_vars.
CheckInvite ==
    /\ rv_pc = "check"
    /\ rv_invite' = is_invite(rv_notifs_in)
    /\ rv_pc' = IF is_invite(rv_notifs_in) THEN "done" ELSE "merge"
    /\ UNCHANGED <<store_vars, mail_vars, rv_room, rv_notifs_in, rv_i, rv_notifs, rv_targets>>

\* Lines 368-392: one notification of the loop.  rv_targets records, beside
\* each entry, the target events of the notifications that went into it.
MergeNotif ==
    /\ rv_pc = "merge"
    /\ rv_i < Len(rv_notifs_in)
    /\ LET n == rv_notifs_in[rv_i + 1]
           merged == merge_notif(rv_notifs, _get_notif_vars(n))
       IN /\ rv_notifs' = merged
          /\ rv_targets' = IF Len(merged) = Len(rv_notifs)
                           THEN [rv_targets EXCEPT ![Len(rv_targets)] = @ \cup {n.event_id}]
                           ELSE Append(rv_targets, {n.event_id})
    /\ rv_i' = rv_i + 1
    /\ UNCHANGED <<store_vars, mail_vars, rv_pc, rv_room, rv_notifs_in, rv_invite>>

\* Line 394: return room_vars.
ReturnRoomVars ==
    /\ rv_pc = "merge"
    /\ rv_i = Len(rv_notifs_in)
    /\ rv_pc' = "done"
    /\ UNCHANGED <<store_vars, mail_vars, rv_room, rv_notifs_in, rv_i, rv_notifs, rv_targets,
                   rv_invite>>

NextRoom == CheckInvite \/ MergeNotif \/ ReturnRoomVars

SpecRoom == InitRoom /\ [][NextRoom]_vars

\* The steps above build what _get_room_vars returns.
StepsAgreeWithGetRoomVars ==
    rv_pc = "done" =>
        /\ rv_notifs = _get_room_vars(rv_room, rv_notifs_in).notifs
        /\ rv_invite = _get_room_vars(rv_room, rv_notifs_in).invite

\* C3: no entry of the room's notifs list holds two messages with the same id.
C3_UniqueIdsPerEntry ==
    \A k \in 1..Len(rv_notifs) :
        \A i, j \in 1..Len(rv_notifs[k].messages) :
            i # j => rv_notifs[k].messages[i].id # rv_notifs[k].messages[j].id

\* Two notifications went into one entry, their windows shared a message, and
\* the entry grew by the message that was new.
C3_Witness ==
    \E k \in 1..Len(rv_notifs) :
        /\ Cardinality(rv_targets[k]) >= 2
        /\ Len(rv_notifs[k].messages) >= 3

\* C4: a message of an entry is non-historical exactly when its event is the
\* target of a notification that was placed in or merged into that entry.
C4_HistoricalIffNotTarget ==
    \A k \in 1..Len(rv_notifs) :
        \A i \in 1..Len(rv_notifs[k].messages) :
            (rv_notifs[k].messages[i].is_historical = FALSE)
                <=> (rv_notifs[k].messages[i].id \in rv_targets[k])

\* An entry that holds a context message and the targets of two notifications.
C4_Witness ==
    \E k \in 1..Len(rv_notifs) :
        /\ Cardinality({ i \in 1..Len(rv_notifs[k].messages) :
                            ~rv_notifs[k].messages[i].is_historical }) >= 2
        /\ \E i \in 1..Len(rv_notifs[k].messages) : rv_notifs[k].messages[i].is_historical

\* ================================================= the headline, from any store
\* The headline selection is entered with every room digest built.  The
\* batches: up to MaxNotifs push actions over one or two rooms, each room's
\* actions on its events 1, 2, ... in turn.  The code reads the store for one
\* room only, the reason's room R (the reason is R's first push action): the
\* events notified in R are sent by up to two senders, named in order of first
\* appearance, each an invite for the user or of one other shape, and each
\* sender of R has one way of resolving their membership.  The events of the
\* other room are messages of one sender who is in the room.
SenderOrder == <<"@alice:hs", "@bob:hs">>
InviteForUser == [type |-> Member, state_key |-> user_id, membership |-> INVITE]
PlainShapes == { sh \in EventShapes :
                    sh.type = Message \/ (sh.type = Member /\ sh.state_key # user_id) }
MemberStatus == {"current", "missing", "historical", "none"}

InOrderOfAppearance(f, idx, order) ==
    \A i \in idx :
        \E k \in 1..(Cardinality({ f[j] : j \in { x \in idx : x < i } }) + 1) :
            k <= Len(order) /\ f[i] = order[k]

PositionOf(room_of, i) == Cardinality({ j \in 1..i : room_of[j] = room_of[i] })

BuiltRooms(order, nbr) == [i \in 1..Len(order) |-> _get_room_vars(order[i], nbr[order[i]])]

InitSummary ==
    /\ RoomVarsIdle
    /\ \E n \in 1..MaxNotifs :
       \E room_of \in { f \in [1..n -> {"!r1", "!r2"}] :
                            InOrderOfAppearance(f, 1..n, RoomOrder) } :
       \E R \in { room_of[i] : i \in 1..n } :
         LET in_R == { i \in 1..n : room_of[i] = R }
             event_of == [i \in 1..n |-> <<room_of[i], PositionOf(room_of, i)>>]
             pas == [i \in 1..n |-> PushAction(event_of[i])]
             several == Cardinality({ room_of[i] : i \in 1..n }) > 1
         IN
         \E sender_of \in { f \in [1..n -> Range(SenderOrder)] :
                              /\ \A i \in (1..n) \ in_R : f[i] = SenderOrder[1]
                              /\ InOrderOfAppearance(f, in_R, SenderOrder) } :
         \E plain \in IF several THEN { sh \in PlainShapes : sh.type = Message }
                                 ELSE PlainShapes :
         \E invites \in SUBSET in_R :
         \E status \in [{ sender_of[i] : i \in in_R } -> MemberStatus] :
         \E kind \in {"explicit", "members", "none"} :
         LET senders_of_R == DOMAIN status
             first_of(u) == event_of[MinOf({ i \in in_R : sender_of[i] = u })]
         IN
         /\ push_actions = pas
         /\ reason = [room_id |-> R, event_id |-> event_of[MinOf(in_R)], room_name |-> None]
         /\ events = [e \in EventIds |->
                        IF \E i \in 1..n : event_of[i] = e
                        THEN LET i == CHOOSE i \in 1..n : event_of[i] = e
                                 shape == IF i \in invites THEN InviteForUser ELSE plain
                             IN [type |-> shape.type, state_key |-> shape.state_key,
                                 membership |-> shape.membership, sender |-> sender_of[i]]
                        ELSE [type |-> Message, state_key |-> "", membership |-> "",
                              sender |-> SenderAt(e[2])]]
         /\ visible = EventIds
         /\ room_state_ids =
                [r \in Rooms |->
                   IF r = R
                   THEN (Senders \ senders_of_R)
                            \cup { u \in senders_of_R : status[u] \in {"current", "missing"} }
                   ELSE Senders]
         /\ missing_events = { <<R, u>> : u \in { v \in senders_of_R : status[v] = "missing" } }
         /\ historical_member =
                { <<first_of(u), u>> : u \in { v \in senders_of_R : status[v] = "historical" } }
         /\ room_name_kind = [r \in Rooms |-> IF r = R THEN kind ELSE "none"]
         /\ profile = "None"
         /\ notifs_by_room = group_by_room(pas)
         /\ rooms_in_order =
                sort_rooms(deduped_ordered_list(SeqMap(LAMBDA pa : pa.room_id, pas)),
                           group_by_room(pas))
    /\ \A r \in DOMAIN notifs_by_room : ~room_vars_raises(r, notifs_by_room[r])
    /\ rooms = BuiltRooms(rooms_in_order, notifs_by_room)
    /\ pc = "rooms"
    /\ user_display_name = user_id
    /\ state_by_room = DOMAIN notifs_by_room
    /\ it = Len(rooms_in_order)
    /\ inflight = {}
    /\ workers = FetchLimit
    /\ summary_text = NoSummary
    /\ email = NoEmail
    /\ failure = None

NextSummary == ReasonRoomName \/ SendEmail \/ SummaryFail

SpecSummary == InitSummary /\ [][NextSummary]_vars

\* ================================================= properties of the headline
\* The room the headline is about, its push actions in input order, and how
\* each of their senders resolves, read from the store.
ReasonRoom == reason.room_id
ReasonNotifs == SelectSeq(push_actions, LAMBDA pa : pa.room_id = ReasonRoom)
SenderOfNotif(i) == events[ReasonNotifs[i].event_id].sender
ReasonSenders == { SenderOfNotif(i) : i \in 1..Len(ReasonNotifs) }
FirstNotifOf(u) == MinOf({ i \in 1..Len(ReasonNotifs) : SenderOfNotif(i) = u })
InCurrentState(u) == u \in room_state_ids[ReasonRoom]
Resolves(u) ==
    IF InCurrentState(u)
    THEN <<ReasonRoom, u>> \notin missing_events
    ELSE <<ReasonNotifs[FirstNotifOf(u)].event_id, u>> \in historical_member
ResolvedSenders == { u \in ReasonSenders : Resolves(u) }
DescriptorOf(u) == <<"name", u, IF InCurrentState(u) THEN "current" ELSE "historical">>
EarliestResolved ==
    CHOOSE u \in ResolvedSenders : \A v \in ResolvedSenders : FirstNotifOf(u) <= FirstNotifOf(v)
InvitesOfReasonRoom ==
    { i \in 1..Len(ReasonNotifs) :
        LET ev == events[ReasonNotifs[i].event_id] IN
        ev.type = Member /\ ev.state_key = user_id /\ ev.membership = INVITE }
SingleRoom == Cardinality(BatchRooms) = 1
NameOfReasonRoom(fallback_to_members) ==
    CASE room_name_kind[ReasonRoom] = "explicit" -> <<"room_name", ReasonRoom>>
      [] room_name_kind[ReasonRoom] = "members" /\ fallback_to_members ->
            <<"members_of", ReasonRoom>>
      [] OTHER -> None
MemberDerived ==
    \/ SingleRoom /\ Len(ReasonNotifs) > 1 /\ InvitesOfReasonRoom = {}
          /\ NameOfReasonRoom(FALSE) = None
    \/ ~SingleRoom /\ NameOfReasonRoom(TRUE) = None

\* C7: the member-derived headline counts the senders of the room whose
\* membership resolves (current state, else the historical state at their
\* first notification): none gives "messages in {room_id}", one gives
\* "messages from {that one}", more give "messages from {first} and others"
\* with the first being the resolved sender whose first notification is
\* earliest in the input order.
C7_MemberDerivedHeadline ==
    (email.sent /\ MemberDerived) =>
        email.summary_text =
            CASE ResolvedSenders = {} ->
                    Headline("messages_in_room", None, <<"room_id", ReasonRoom>>)
              [] Cardinality(ResolvedSenders) = 1 ->
                    Headline("messages_from_person",
                             DescriptorOf(CHOOSE u \in ResolvedSenders : TRUE), None)
              [] OTHER ->
                    Headline("messages_from_person_and_others",
                             DescriptorOf(EarliestResolved), None)

\* C8: with one room in the batch and any of its notifications an invite for
\* the user, the headline is the invite headline whatever else the room
\* holds: "invited by {inviter}" without a room name, else "invited by
\* {inviter} to {room_name}"; the inviter is named from their current-state
\* member event, or by their raw id when that event is absent.
C8_InviteHeadline ==
    (email.sent /\ SingleRoom /\ InvitesOfReasonRoom # {}) =>
        LET inviter == SenderOfNotif(MinOf(InvitesOfReasonRoom))
            inviter_name == IF Resolves(inviter) /\ InCurrentState(inviter)
                            THEN <<"name", inviter, "current">>
                            ELSE <<"mxid", inviter>>
        IN email.summary_text =
              IF NameOfReasonRoom(FALSE) = None
              THEN Headline("invite_from_person", inviter_name, None)
              ELSE Headline("invite_from_person_to_room", inviter_name,
                            NameOfReasonRoom(FALSE))

C8_Witness ==
    /\ email.sent
    /\ SingleRoom
    /\ Len(ReasonNotifs) >= 3
    /\ InvitesOfReasonRoom # {}
    /\ MinOf(InvitesOfReasonRoom) > 1
    /\ ~InCurrentState(SenderOfNotif(MinOf(InvitesOfReasonRoom)))
    /\ email.summary_text.template = "invite_from_person_to_room"

\* C9: with one room in the batch, no invite for the user and exactly one
\* notification, the sender is named from the current room state only, and
\* the headline is "message from {sender} in {room_name}" with both known,
\* "message from {sender}" with the sender only, else "messages in
\* {room_name or room_id}".
C9_SingleNotifHeadline ==
    (email.sent /\ SingleRoom /\ InvitesOfReasonRoom = {} /\ Len(ReasonNotifs) = 1) =>
        LET sender == SenderOfNotif(1)
            room_name == NameOfReasonRoom(FALSE)
        IN email.summary_text =
              IF InCurrentState(sender) /\ room_name # None
              THEN Headline("message_from_person_in_room", <<"name", sender, "current">>,
                            room_name)
              ELSE IF InCurrentState(sender)
              THEN Headline("message_from_person", <<"name", sender, "current">>, None)
              ELSE Headline("messages_in_room", None,
                            IF room_name # None THEN room_name
                            ELSE <<"room_id", ReasonRoom>>)

C9_Witness ==
    /\ email.sent
    /\ SingleRoom
    /\ Len(ReasonNotifs) = 1
    /\ InvitesOfReasonRoom = {}
    /\ ~InCurrentState(SenderOfNotif(1))
    /\ <<ReasonNotifs[1].event_id, SenderOfNotif(1)>> \in historical_member
    /\ email.summary_text = Headline("messages_in_room", None, <<"room_id", ReasonRoom>>)

\* C10: with several rooms in the batch the headline is "messages in
\* {reason room name} and others" when the reason room's name is known, and
\* otherwise the member-derived headline of the reason room's own push
\* actions and state, wherever the reason room stands among the sections.
C10_SeveralRoomsHeadline ==
    (email.sent /\ ~SingleRoom) =>
        email.summary_text =
            IF NameOfReasonRoom(TRUE) # None
            THEN Headline("messages_in_room_and_others", None, NameOfReasonRoom(TRUE))
            ELSE _make_summary_text_from_member_events(ReasonRoom, ReasonNotifs)

C10_Witness ==
    /\ email.sent
    /\ ~SingleRoom
    /\ NameOfReasonRoom(TRUE) = None
    /\ RoomOf(email.rooms[1]) # ReasonRoom
    /\ push_actions[1].room_id # ReasonRoom
    /\ ResolvedSenders = {"@alice:hs"}
    /\ email.summary_text =
          Headline("messages_from_person", <<"name", "@alice:hs", "historical">>, None)

\* ================================================= _get_message_vars, from any member state
\* The room under test with every event a message (the last one encrypted),
\* any set of senders in the current state, and any historical snapshots: for
\* each event and sender, whether the state as of the event holds the sender's
\* member event.  Every current-state member event is in the store.  The push
\* actions come in the chronological order of their events.
InitMessage ==
    /\ MailIdle
    /\ events = [e \in EventIds |->
                    [type |-> IF e[2] = NEvents THEN Encrypted ELSE Message,
                     state_key |-> "", membership |-> "", sender |-> SenderAt(e[2])]]
    /\ visible = EventIds
    /\ \E in_state \in SUBSET {"@alice:hs", "@bob:hs"} :
         room_state_ids = [r \in Rooms |-> in_state]
    /\ historical_member \in
          SUBSET ({ e \in EventIds : e[1] = RoomUnderTest } \X {"@alice:hs", "@bob:hs"})
    /\ missing_events = {}
    /\ room_name_kind = [r \in Rooms |-> "none"]
    /\ profile = "None"
    /\ rv_pc = "check"
    /\ rv_room = RoomUnderTest
    /\ rv_notifs_in \in { pas \in SeqsUpTo({ PushAction(<<RoomUnderTest, k>>) : k \in 1..NEvents },
                                         MaxNotifs) :
                              \A i, j \in 1..Len(pas) : i < j => pas[i].received_ts < pas[j].received_ts }
    /\ rv_i = 0
    /\ rv_notifs = <<>>
    /\ rv_targets = <<>>
    /\ rv_invite = FALSE

SpecMessage == InitMessage /\ [][NextRoom]_vars

\* The name and avatar a message must carry when the historical state is
\* read as of the event as_of.
NameAsOf(m, as_of) ==
    LET sender == events[m.id].sender IN
    IF sender \in room_state_ids[rv_room]
    THEN <<"name", sender, "current">>
    ELSE IF <<as_of, sender>> \in historical_member
         THEN <<"name", sender, "historical">>
         ELSE <<"mxid", sender>>
AvatarAsOf(m, as_of) ==
    LET sender == events[m.id].sender IN
    IF sender \in room_state_ids[rv_room]
    THEN <<"avatar_url", sender, "current">>
    ELSE IF <<as_of, sender>> \in historical_member
         THEN <<"avatar_url", sender, "historical">>
         ELSE None

\* C11 as stated: every rendered message carries the name and avatar of its
\* sender's current-state member event; without one, of the member event in
\* the historical state as of the target event of a notification of its
\* entry; without that either, the raw sender id and no avatar.
C11_SenderAsOfTarget ==
    \A k \in 1..Len(rv_notifs) :
        \A i \in 1..Len(rv_notifs[k].messages) :
            LET m == rv_notifs[k].messages[i] IN
            \E t \in rv_targets[k] :
                /\ m.sender_name = NameAsOf(m, t)
                /\ m.sender_avatar_url = AvatarAsOf(m, t)

\* C11 amended: as above, with the historical state read as of the rendered
\* message's own event.
C11_SenderAsOfMessage ==
    \A k \in 1..Len(rv_notifs) :
        \A i \in 1..Len(rv_notifs[k].messages) :
            LET m == rv_notifs[k].messages[i] IN
            /\ m.sender_name = NameAsOf(m, m.id)
            /\ m.sender_avatar_url = AvatarAsOf(m, m.id)

C11_Witness ==
    /\ rv_pc = "done"
    /\ \E k \in 1..Len(rv_notifs) :
         \E i, j, l \in 1..Len(rv_notifs[k].messages) :
            LET mi == rv_notifs[k].messages[i]
                mj == rv_notifs[k].messages[j]
                ml == rv_notifs[k].messages[l]
            IN /\ mi.is_historical
               /\ mi.sender_name = <<"name", events[mi.id].sender, "historical">>
               /\ \E t \in rv_targets[k] : <<t, events[mi.id].sender>> \notin historical_member
               /\ mj.sender_name = <<"mxid", events[mj.id].sender>>
               /\ mj.sender_avatar_url = None
               /\ ml.sender_name = <<"name", events[ml.id].sender, "current">>

\* ================================================= properties of the profile lookup
ProfileLookedUp == pc \notin {"idle", "start", "profile"} /\ failure # <<"get_events">>
ProfileLookupFailsOrEmpty == profile = StoreError \/ profile = "None"

\* C12: once the display-name lookup has failed or given no name,
\* user_display_name is the raw user id; the lookup is never the failure
\* that ends the call, and the email that is sent carries the raw user id.
C12_DisplayNameFallback ==
    (ProfileLookedUp /\ ProfileLookupFailsOrEmpty) =>
        /\ user_display_name = user_id
        /\ failure \in {None, <<"state">>, <<"event">>}
        /\ email.sent => email.user_display_name = user_id

C12_Witness ==
    /\ profile = StoreError
    /\ email.sent
    /\ email.user_display_name = user_id
    /\ Cardinality(BatchRooms) >= 2

\* ================================================= properties of the invite flag
InviteTargets ==
    { i \in 1..Len(rv_notifs_in) :
        LET ev == events[rv_notifs_in[i].event_id] IN
        ev.type = Member /\ ev.state_key = user_id /\ ev.membership = INVITE }

\* C13: the room digest has invite = true exactly when one of the room's
\* notifications targets a member event with this user as state key and
\* membership invite; and with invite = true its notifs list is empty,
\* whatever the other notifications target.
C13_InviteFlag ==
    rv_pc = "done" =>
        /\ rv_invite <=> InviteTargets # {}
        /\ rv_invite => rv_notifs = <<>>

C13_Witness ==
    /\ rv_pc = "done"
    /\ rv_invite
    /\ rv_notifs = <<>>
    /\ 1 \notin InviteTargets
    /\ Len(rv_notifs_in) \notin InviteTargets
    /\ \E i \in 1..Len(rv_notifs_in) : events[rv_notifs_in[i].event_id].type = Message

\* ================================================= properties of the fetch phase
\* What the batch and the store alone determine.
InputRooms == SeqMap(LAMBDA pa : pa.room_id, push_actions)
InputGroups == group_by_room(push_actions)
DeterminedOrder == sort_rooms(deduped_ordered_list(InputRooms), InputGroups)
DeterminedReason ==
    [room_id |-> reason.room_id, event_id |-> reason.event_id,
     room_name |-> calculate_room_name(reason.room_id, TRUE)]
DeterminedName == IF profile = StoreError \/ profile = "None" THEN user_id ELSE profile

\* C14: whatever the order in which the room-state fetches start and
\* complete, each room's state is stored once, the room order after the sort
\* and every room digest built are those the batch and the store determine,
\* and so are the room sections, headline, reason and name of the email sent.
C14_DigestIndependentOfFetches ==
    /\ inflight \cap state_by_room = {}
    /\ pc \in {"rooms", "summary", "done"} =>
          LET order == DeterminedOrder
              groups == InputGroups
          IN /\ rooms_in_order = order
             /\ Len(rooms) <= Len(order)
             /\ \A i \in 1..Len(rooms) : rooms[i] = _get_room_vars(order[i], groups[order[i]])
    /\ email.sent =>
          /\ Len(email.rooms) = Cardinality(BatchRooms)
          /\ email.rooms = rooms
          /\ email.summary_text = select_summary_text(InputGroups, DeterminedReason)
          /\ email.reason = DeterminedReason
          /\ email.user_display_name = DeterminedName

\* A room taken later from the iterator has its state stored while a room
\* taken earlier is still awaited.
C14_Witness ==
    /\ pc = "fetch"
    /\ Cardinality(BatchRooms) >= 3
    /\ \E i, j \in 1..it :
         /\ i < j
         /\ rooms_in_order[i] \in inflight
         /\ rooms_in_order[j] \in state_by_room
    /\ \E a, b \in BatchRooms :
         a # b /\ sort_key(InputGroups, a) = sort_key(InputGroups, b)

\* ================================================= properties of the merge
\* The candidate window of a notification, read from the store: the visible
\* events among the CONTEXT_BEFORE before the target, and the target, those
\* that are messages.
CandidateIds(n) ==
    { e \in EventIds :
        /\ e[1] = n.room_id
        /\ \/ e = n.event_id
           \/ /\ e[2] < n.event_id[2]
              /\ e[2] >= n.event_id[2] - CONTEXT_BEFORE
              /\ e \in visible
        /\ events[e].type \in {Message, Encrypted} }
IdsOfEntry(k) == { rv_notifs[k].messages[i].id : i \in 1..Len(rv_notifs[k].messages) }
IdsInDigest == UNION { IdsOfEntry(k) : k \in 1..Len(rv_notifs) }
NoCandidateDropped ==
    \A i \in 1..rv_i : CandidateIds(rv_notifs_in[i]) \subseteq IdsInDigest
Chronological ==
    \A i, j \in 1..Len(rv_notifs_in) :
        i < j => rv_notifs_in[i].event_id[2] <= rv_notifs_in[j].event_id[2]

\* C15 as stated: in a room without an invite, after any sequence of
\* notifications, every message of every processed notification's candidate
\* window is in some entry of the notifs list.
C15_NoCandidateDroppedEver ==
    (rv_pc \in {"merge", "done"} /\ ~rv_invite) => NoCandidateDropped

\* C15 amended: the same, for notifications supplied in the chronological
\* order of their target events.
C15_NoCandidateDroppedInOrder ==
    (rv_pc \in {"merge", "done"} /\ ~rv_invite /\ Chronological) => NoCandidateDropped

C15_Witness ==
    /\ rv_pc = "done"
    /\ ~rv_invite
    /\ Chronological
    /\ Len(rv_notifs_in) >= 3
    /\ \E k \in 1..Len(rv_notifs) :
         /\ Cardinality(rv_targets[k]) >= 2
         /\ Cardinality(IdsOfEntry(k)) >= 3

\* C16: with the room's push actions in the chronological order of their
\* target events, no message id is in two different entries of the notifs
\* list, at any step of the loop and when _get_room_vars returns.
C16_NoIdInTwoEntries ==
    (rv_pc \in {"merge", "done"} /\ Chronological) =>
        \A k, l \in 1..Len(rv_notifs) :
            k < l => IdsOfEntry(k) \cap IdsOfEntry(l) = {}

\* Two entries, the later one grown by a merge, with a message of the
\* earlier entry right before the later entry's first target.
C16_Witness ==
    /\ rv_pc = "done"
    /\ Chronological
    /\ Len(rv_notifs) >= 2
    /\ Cardinality(rv_targets[Len(rv_notifs)]) >= 2
    /\ \E e \in IdsOfEntry(1) : \E t \in rv_targets[2] : t[2] = e[2] + 1

====
